---- MODULE Spec2Model ----
(***************************************************************************)
(* pickem_alerts (src/main.py): a single-threaded loop that, once per      *)
(* US/Eastern calendar date, fetches the day's MLB odds, selects the       *)
(* record with the minimum price and mails it through the Gmail API.       *)
(*                                                                         *)
(* The model follows main() statement by statement.  The wall clock, the   *)
(* odds provider, the token file on disk and the mail provider are the     *)
(* environment: their answers are nondeterministic choices.                *)
(***************************************************************************)
EXTENDS Integers, Sequences, FiniteSets, TLC

\* ------------------------------------------------------------------ bounds
\* Calendar dates are 1, 2, ...; 0 stands for "current_date not yet bound".
\* The last date the clock reaches in runs where steps may fail.
MaxDay == 2
\* The last date the clock reaches in continuous, failure-free runs.
MaxLiveDay == 3
\* Exceptions raised over a whole run (every one is followed by a retry).
MaxErrors == 2
\* Games in one provider response (main loop specifications).
MaxGames == 2
\* Length of the outcome sequences the selection rule is checked on.
MaxLen == 3

\* ------------------------------------------------------- program constants
\* sleep(60), lines 193 and 197.
SleepSeconds == 60

Days == 1..(IF MaxDay > MaxLiveDay THEN MaxDay ELSE MaxLiveDay)
Unbound == 0

\* os.environ[...] lookups of lines 162-164.
EnvVars == {"SENDER_EMAIL", "RECIPIENT_EMAIL", "ODDS_API_KEY"}

\* Lines 162-164: os.environ[name] for each of the three names returns a
\* value; a name that is not set raises KeyError.  (EnvironHasOrDefault:
\* lookups written as os.environ.get(name, default).)
EnvironHasOrDefault(env) == TRUE
EnvironHas(env) == EnvVars \subseteq env

\* Line 166: the value new_day starts with.  (InitialNewDayFalse: the flag
\* starting false.)
InitialNewDayFalse == FALSE
InitialNewDay == TRUE

None == [none |-> TRUE]

\* Line 186: best_bet is not None.  (HasBestBetAlways: the test dropped.)
HasBestBetAlways(b) == TRUE
HasBestBet(b) == b # None

\* ---------------------------------------------------------- outcome records
Names == {"A", "B", "C"}
Prices == {-200, -150, 130}

\* One outcome of the provider's JSON: {name, price}; the price key may be
\* missing, which leaves NaN in (or no) price column of the DataFrame.
Outcomes == [name : Names, price : Prices] \cup [name : Names]

HasPrice(r) == "price" \in DOMAIN r

SeqsUpTo(S, n) == UNION {[1..k -> S] : k \in 0..n}

\* ------------------------------------------------------ provider responses
Market(outs) == [outcomes |-> outs]
Bookmaker(mkts) == [markets |-> mkts]
Game(bks) == [bookmakers |-> bks]

oA == [name |-> "A", price |-> -150]
oB == [name |-> "B", price |-> -200]
oC == [name |-> "C"]

\* The games the main-loop specifications draw responses from: a game with
\* two priced outcomes in the first market of its first bookmaker (and
\* further markets and bookmakers behind it), a game whose outcomes carry no
\* price, a game without outcomes, without bookmakers and without markets.
GameSet ==
    { Game(<<Bookmaker(<<Market(<<oA, oB>>), Market(<<oC>>)>>),
             Bookmaker(<<Market(<<oC>>)>>)>>),
      Game(<<Bookmaker(<<Market(<<oC>>)>>)>>),
      Game(<<Bookmaker(<<Market(<<>>)>>)>>),
      Game(<<>>),
      Game(<<Bookmaker(<<>>)>>) }

\* What requests.get / json.load hand to get_spreads: the request fails, the
\* body is not JSON, the body is a JSON object (an error message, as with an
\* HTTP 500 or 401), or the body is a list of games.
Responses ==
    { [kind |-> "request_failed"], [kind |-> "not_json"], [kind |-> "object"] }
    \cup { [kind |-> "games", games |-> g] : g \in SeqsUpTo(GameSet, MaxGames) }

\* Exception classes raised in the model; all derive from Exception.
ExceptionClasses ==
    { "RequestException", "JSONDecodeError", "TypeError", "IndexError",
      "ValueError", "RefreshError", "FileNotFoundError", "TimeoutError",
      "UnboundLocalError" }

\* except Exception (line 195): the classes the outer handler catches.
\* (MainCatchesNarrow: a handler written as except HttpError;
\* MainCatchesNone: the loop body without its try.)
MainCatchesNarrow(e) == e \in {"HttpError"}
MainCatchesNone(e) == FALSE
MainCatches(e) == e \in ExceptionClasses \cup {"HttpError", "KeyError"}

\* except HttpError (line 113): the classes send_email swallows.
SendCatches(e) == e = "HttpError"

\* --------------------------------------------------------------- get_spreads
\* The comprehension of line 154, game by game: game["bookmakers"][0]
\* ["markets"][0]["outcomes"]; an empty bookmakers or markets list raises
\* IndexError for the whole response.
GameRaises(g) ==
    \/ Len(g.bookmakers) = 0
    \/ Len(g.bookmakers[1].markets) = 0

RECURSIVE Flatten(_)
Flatten(games) ==
    IF games = <<>> THEN <<>>
    ELSE Head(games).bookmakers[1].markets[1].outcomes \o Flatten(Tail(games))

\* get_spreads (lines 148-157): the exception raised, or the flattened rows.
\* (GetSpreadsRaiseOnEmpty: a get_spreads that treats an empty result as an
\* error; GetSpreadsSkipMalformed: one that leaves out the games it cannot
\* index and keeps the rows of the others.)
GetSpreadsSkipMalformed(resp) ==
    CASE resp.kind = "request_failed" -> [raised |-> "RequestException", spreads |-> <<>>]
      [] resp.kind = "not_json"       -> [raised |-> "JSONDecodeError", spreads |-> <<>>]
      [] resp.kind = "object"         -> [raised |-> "TypeError", spreads |-> <<>>]
      [] OTHER ->
            [raised |-> "none",
             spreads |-> Flatten(SelectSeq(resp.games, LAMBDA g : ~GameRaises(g)))]
GetSpreadsRaiseOnEmpty(resp) ==
    CASE resp.kind = "request_failed" -> [raised |-> "RequestException", spreads |-> <<>>]
      [] resp.kind = "not_json"       -> [raised |-> "JSONDecodeError", spreads |-> <<>>]
      [] resp.kind = "object"         -> [raised |-> "TypeError", spreads |-> <<>>]
      [] OTHER ->
            IF \/ \E i \in 1..Len(resp.games) : GameRaises(resp.games[i])
               \/ Flatten(resp.games) = <<>>
            THEN [raised |-> "IndexError", spreads |-> <<>>]
            ELSE [raised |-> "none", spreads |-> Flatten(resp.games)]
GetSpreads(resp) ==
    CASE resp.kind = "request_failed" -> [raised |-> "RequestException", spreads |-> <<>>]
      [] resp.kind = "not_json"       -> [raised |-> "JSONDecodeError", spreads |-> <<>>]
      [] resp.kind = "object"         -> [raised |-> "TypeError", spreads |-> <<>>]
      [] OTHER ->
            IF \E i \in 1..Len(resp.games) : GameRaises(resp.games[i])
            THEN [raised |-> "IndexError", spreads |-> <<>>]
            ELSE [raised |-> "none", spreads |-> Flatten(resp.games)]

\* ------------------------------------------------------------ best-bet rule
\* Series.idxmin (line 180): a left-to-right scan that keeps the position of
\* the first strictly smaller price and skips rows without a price; 0 when no
\* row has one.  (BetterOrEqual keeps the last minimum, Worse the maximum.)
BetterOrEqual(p, q) == p <= q
Worse(p, q) == p > q
Better(p, q) == p < q

RECURSIVE ArgMinFrom(_, _, _)
ArgMinFrom(s, i, best) ==
    IF i > Len(s) THEN best
    ELSE IF HasPrice(s[i]) /\ (best = 0 \/ Better(s[i].price, s[best].price))
         THEN ArgMinFrom(s, i + 1, i)
         ELSE ArgMinFrom(s, i + 1, best)

IdxMin(s) == ArgMinFrom(s, 1, 0)

\* Lines 179-184: spreads.loc[spreads.price.idxmin()], None when that raises
\* (no price column).  label is the row's index label (0-based).
BestBet(s) ==
    IF IdxMin(s) = 0 THEN None
    ELSE [label |-> IdxMin(s) - 1, name |-> s[IdxMin(s)].name, price |-> s[IdxMin(s)].price]

\* spreads.empty (line 176).
IsEmpty(s) == Len(s) = 0

\* -------------------------------------------------------------- credentials
\* An OAuth2 credential as token.json stores it (always with an access
\* token): whether its expiry has passed, whether it carries a refresh token.
Creds == [expired : BOOLEAN, refresh_token : BOOLEAN]

\* Credentials.valid: the token has not expired.
Valid(c) == ~c.expired

NoFile == [file |-> "absent"]
Unreadable == [file |-> "unreadable"]
TokenFiles == {NoFile, Unreadable} \cup Creds

Refreshed == [expired |-> FALSE, refresh_token |-> TRUE]
Fresh(rt) == [expired |-> FALSE, refresh_token |-> rt]

\* Lines 61-62: what token.json holds once creds.to_json() is written to it.
\* to_json leaves out the fields that are None, and a file without a
\* refresh_token field is one from_authorized_user_file (line 45) rejects.
ToJson(c) == IF c.refresh_token THEN c ELSE Unreadable

\* Line 48: not creds or not creds.valid.  (NeedsNewAlways: the test dropped.)
NeedsNewAlways(c) == TRUE
NeedsNew(c) == c = None \/ ~Valid(c)

\* Line 49: creds and creds.expired and creds.refresh_token.
\* (CanRefreshNever: the refresh branch never taken; CanRefreshLoose: the
\* refresh_token test dropped.)
CanRefreshNever(c) == FALSE
CanRefreshLoose(c) == c # None /\ c.expired
CanRefresh(c) == c # None /\ c.expired /\ c.refresh_token

\* authenticate_with_google (lines 41-65) on the token file `file`, with the
\* environment's answers: refreshOk (the token endpoint accepts the refresh),
\* flowOk (the browser flow completes), rt (the flow grants a refresh token).
\* Result: the exception raised or the credential returned, the token file
\* afterwards, and the calls made.
Authenticate(file, refreshOk, flowOk, rt) ==
    LET loaded == IF file \in {NoFile, Unreadable} THEN None ELSE file
        log0 == [raised |-> "none", creds |-> None, file |-> file,
                 refresh |-> 0, flow |-> 0, writes |-> 0]
    IN  IF file = Unreadable
        THEN [log0 EXCEPT !.raised = "ValueError"]
        ELSE IF ~NeedsNew(loaded)
        THEN [log0 EXCEPT !.creds = loaded]
        ELSE IF CanRefresh(loaded)
        THEN IF refreshOk
             THEN [log0 EXCEPT !.creds = Refreshed, !.file = ToJson(Refreshed),
                               !.refresh = 1, !.writes = 1]
             ELSE [log0 EXCEPT !.raised = "RefreshError", !.refresh = 1]
        ELSE IF flowOk
             THEN [log0 EXCEPT !.creds = Fresh(rt), !.file = ToJson(Fresh(rt)),
                               !.flow = 1, !.writes = 1]
             ELSE [log0 EXCEPT !.raised = "FileNotFoundError", !.flow = 1]

\* ---------------------------------------------------------------- the state
VARIABLES
    environ,       \* the environment variables that are set
    pc,            \* main()'s position
    today,         \* the US/Eastern date of the wall clock
    new_day,       \* main's new_day flag
    current_date,  \* main's current_date (Unbound before line 171 first runs)
    spreads,       \* main's spreads: the rows get_spreads returned
    best_bet,      \* main's best_bet
    tokenFile,     \* token.json on disk
    sleep_secs,    \* argument of the sleep() in progress, 0 when not sleeping
    exc,           \* the exception raised in the current iteration
    errors,        \* exceptions raised so far
    fetched,       \* the values of current_date get_spreads was called with
    sends,         \* per current_date: send calls issued to the mail provider
    completed,     \* dates whose body ran through to line 192
    iterLog,       \* what the current loop iteration did, in order
    emptySlate,    \* whether this iteration's provider response held no outcome at all
    authLog,       \* this iteration's authenticate_with_google call: token file before, result
    ticksThis,     \* (continuous runs) whether the date changed since the current iteration began
    ticksPrev,     \* (continuous runs) whether the date changed during the previous iteration
    closeTicks,    \* (continuous runs) whether two date changes fell within two consecutive iterations
    shape          \* whether this iteration's response held a game get_spreads cannot index,
                   \* and how many responses in a row did

vars == << environ, pc, today, new_day, current_date, spreads, best_bet, tokenFile,
           sleep_secs, exc, errors, fetched, sends, completed, iterLog, authLog,
           emptySlate, ticksThis, ticksPrev, closeTicks, shape >>

\* A well-formed response none of whose games lists an outcome.
EmptySlate(resp) ==
    /\ resp.kind = "games"
    /\ \A i \in 1..Len(resp.games) :
          /\ Len(resp.games[i].bookmakers) > 0
          /\ Len(resp.games[i].bookmakers[1].markets) > 0
          /\ resp.games[i].bookmakers[1].markets[1].outcomes = <<>>

\* A list of games one of which has no bookmakers (or no markets under its
\* first bookmaker); others: some well-formed game of it lists outcomes;
\* run: how many responses in a row, this one included, had that shape.
NoShape == [malformed |-> FALSE, others |-> FALSE, run |-> 0]
ShapeOf(resp, run) ==
    IF resp.kind = "games" /\ \E i \in 1..Len(resp.games) : GameRaises(resp.games[i])
    THEN [malformed |-> TRUE,
          others |-> \E j \in 1..Len(resp.games) :
                        /\ ~GameRaises(resp.games[j])
                        /\ resp.games[j].bookmakers[1].markets[1].outcomes # <<>>,
          run |-> run + 1]
    ELSE NoShape

NoAuth == [before |-> NoFile, result |-> None, called |-> FALSE]

InitCommon ==
    /\ today = 1
    /\ new_day = TRUE
    /\ current_date = Unbound
    /\ best_bet = None
    /\ sleep_secs = 0
    /\ exc = "none"
    /\ errors = 0
    /\ fetched = {}
    /\ sends = [d \in Days |-> 0]
    /\ completed = {}
    /\ iterLog = <<>>
    /\ authLog = NoAuth
    /\ emptySlate = FALSE
    /\ ticksThis = FALSE
    /\ ticksPrev = FALSE
    /\ closeTicks = FALSE
    /\ shape = NoShape

\* The process before main() runs: any environment, any token file.
Init ==
    /\ InitCommon
    /\ environ \in SUBSET EnvVars
    /\ tokenFile \in TokenFiles
    /\ pc = "start"
    /\ spreads = <<>>

\* ------------------------------------------------------------------ actions
\* An exception raised at main's statement level: caught by the outer
\* except (lines 195-197) or, if not, ending the process.
Raise(e) ==
    /\ exc' = e
    /\ errors' = errors + 1
    /\ pc' = IF MainCatches(e) THEN "except" ELSE "crashed"

\* Lines 162-166: the three environment lookups, then new_day = True.
Start ==
    /\ pc = "start"
    /\ IF EnvironHas(environ)
       THEN /\ pc' = "top"
            /\ exc' = "none"
            /\ new_day' = InitialNewDay
       ELSE /\ pc' = "terminated"
            /\ exc' = "KeyError"
            /\ new_day' = new_day
    /\ UNCHANGED << environ, today, current_date, spreads, best_bet, tokenFile,
                    sleep_secs, errors, fetched, sends, completed, iterLog,
                    authLog, ticksThis, ticksPrev, emptySlate,
                    closeTicks, shape >>

\* Lines 167-172: a loop iteration begins; if new_day, read the date.
\* spreads and best_bet keep what the previous body left in them.
LoopTop ==
    /\ pc = "top"
    /\ IF new_day
       THEN /\ current_date' = today
            /\ pc' = "fetch"
       ELSE /\ current_date' = current_date
            /\ pc' = "update"
    /\ iterLog' = <<>>
    /\ authLog' = NoAuth
    /\ emptySlate' = FALSE
    /\ exc' = "none"
    /\ ticksPrev' = ticksThis
    /\ ticksThis' = FALSE
    /\ shape' = [NoShape EXCEPT !.run = shape.run]
    /\ UNCHANGED << environ, today, new_day, spreads, best_bet, tokenFile,
                    sleep_secs, errors, fetched, sends, completed,
                    closeTicks >>

\* Line 174 with lines 176-177: get_spreads returns rows; an empty frame
\* skips the rest of the body.
FetchReturns ==
    /\ pc = "fetch"
    /\ \E resp \in Responses :
          LET r == GetSpreads(resp)
          IN  /\ r.raised = "none"
              /\ spreads' = r.spreads
              /\ emptySlate' = EmptySlate(resp)
              /\ shape' = ShapeOf(resp, shape.run)
    /\ fetched' = fetched \cup {current_date}
    /\ IF IsEmpty(spreads')
       THEN /\ pc' = "update"
            /\ iterLog' = Append(iterLog, "fetch_empty")
       ELSE /\ pc' = "select"
            /\ iterLog' = Append(iterLog, "fetch_ok")
    /\ UNCHANGED << environ, today, new_day, current_date, best_bet, tokenFile,
                    sleep_secs, exc, errors, sends, completed, authLog,
                    ticksThis, ticksPrev,
                    closeTicks >>

\* Line 174: get_spreads raises.
FetchRaises ==
    /\ pc = "fetch"
    /\ errors < MaxErrors
    /\ \E resp \in Responses :
          LET r == GetSpreads(resp)
          IN  /\ r.raised # "none"
              /\ Raise(r.raised)
              /\ emptySlate' = EmptySlate(resp)
              /\ shape' = ShapeOf(resp, shape.run)
    /\ fetched' = fetched \cup {current_date}
    /\ iterLog' = Append(iterLog, "fetch_raise")
    /\ UNCHANGED << environ, today, new_day, current_date, spreads, best_bet,
                    tokenFile, sleep_secs, sends, completed, authLog,
                    ticksThis, ticksPrev,
                    closeTicks >>

\* Lines 179-186: select the best bet; a failed selection leaves None.
SelectBestBet ==
    /\ pc = "select"
    /\ best_bet' = BestBet(spreads)
    /\ iterLog' = Append(iterLog, IF best_bet' # None THEN "select_ok"
                                                      ELSE "select_fail")
    /\ pc' = IF HasBestBet(best_bet') THEN "auth" ELSE "update"
    /\ UNCHANGED << environ, today, new_day, current_date, spreads, tokenFile,
                    sleep_secs, exc, errors, fetched, sends, completed, authLog,
                    ticksThis, ticksPrev, emptySlate,
                    closeTicks, shape >>

\* Lines 188-189: authenticate_with_google returns a credential and build
\* returns the service.
AuthReturns ==
    /\ pc = "auth"
    /\ \E refreshOk \in BOOLEAN, flowOk \in BOOLEAN, rt \in BOOLEAN :
          LET r == Authenticate(tokenFile, refreshOk, flowOk, rt)
          IN  /\ r.raised = "none"
              /\ tokenFile' = r.file
              /\ authLog' = [before |-> tokenFile, result |-> r, called |-> TRUE]
    /\ pc' = "send"
    /\ iterLog' = Append(iterLog, "auth_ok")
    /\ UNCHANGED << environ, today, new_day, current_date, spreads, best_bet,
                    sleep_secs, exc, errors, fetched, sends, completed,
                    ticksThis, ticksPrev, emptySlate,
                    closeTicks, shape >>

\* Line 188: authenticate_with_google raises.
AuthRaises ==
    /\ pc = "auth"
    /\ errors < MaxErrors
    /\ \E refreshOk \in BOOLEAN, flowOk \in BOOLEAN, rt \in BOOLEAN :
          LET r == Authenticate(tokenFile, refreshOk, flowOk, rt)
          IN  /\ r.raised # "none"
              /\ tokenFile' = r.file
              /\ authLog' = [before |-> tokenFile, result |-> r, called |-> TRUE]
              /\ Raise(r.raised)
    /\ iterLog' = Append(iterLog, "auth_raise")
    /\ UNCHANGED << environ, today, new_day, current_date, spreads, best_bet,
                    sleep_secs, fetched, sends, completed, ticksThis, ticksPrev, emptySlate,
                    closeTicks, shape >>

\* What build("gmail", "v1", ...) of line 189 can raise.
BuildFailures == {"HttpError"}

\* Lines 188-189: authenticate_with_google returns a credential (the token
\* file written as that call writes it), then build raises.
BuildRaises ==
    /\ pc = "auth"
    /\ errors < MaxErrors
    /\ \E refreshOk \in BOOLEAN, flowOk \in BOOLEAN, rt \in BOOLEAN :
          LET r == Authenticate(tokenFile, refreshOk, flowOk, rt)
          IN  /\ r.raised = "none"
              /\ tokenFile' = r.file
              /\ authLog' = [before |-> tokenFile, result |-> r, called |-> TRUE]
    /\ \E e \in BuildFailures : Raise(e)
    /\ iterLog' = Append(iterLog, "auth_ok")
    /\ UNCHANGED << environ, today, new_day, current_date, spreads, best_bet,
                    sleep_secs, fetched, sends, completed, ticksThis, ticksPrev,
                    emptySlate, closeTicks, shape >>

\* What the send call of line 111 can raise: HttpError (the provider answers
\* with an HTTP error status) or a connection-level failure of the transport
\* (a timeout).
SendFailures == {"HttpError", "TimeoutError"}

\* Line 190, send_email (lines 109-112): the send call returns.
SendOk ==
    /\ pc = "send"
    /\ sends' = [sends EXCEPT ![current_date] = @ + 1]
    /\ iterLog' = Append(iterLog, "send_ok")
    /\ pc' = "update"
    /\ UNCHANGED << environ, today, new_day, current_date, spreads, best_bet,
                    tokenFile, sleep_secs, exc, errors, fetched, completed,
                    authLog, emptySlate, ticksThis, ticksPrev,
                    closeTicks, shape >>

\* Lines 111-114: the send call raises and send_email's except clause
\* catches it: logged and swallowed, main goes on to line 192.
SendSwallowed ==
    /\ pc = "send"
    /\ \E e \in SendFailures :
          /\ SendCatches(e)
          /\ iterLog' = Append(iterLog, "send_failed")
    /\ sends' = [sends EXCEPT ![current_date] = @ + 1]
    /\ pc' = "update"
    /\ UNCHANGED << environ, today, new_day, current_date, spreads, best_bet,
                    tokenFile, sleep_secs, exc, errors, fetched, completed,
                    authLog, emptySlate, ticksThis, ticksPrev,
                    closeTicks, shape >>

\* Line 111: the send call raises something send_email's except clause does
\* not catch; it propagates to main.
SendRaises ==
    /\ pc = "send"
    /\ errors < MaxErrors
    /\ \E e \in SendFailures :
          /\ ~SendCatches(e)
          /\ Raise(e)
    /\ sends' = [sends EXCEPT ![current_date] = @ + 1]
    /\ iterLog' = Append(iterLog, "send_failed")
    /\ UNCHANGED << environ, today, new_day, current_date, spreads, best_bet,
                    tokenFile, sleep_secs, fetched, completed, authLog,
                    emptySlate, ticksThis, ticksPrev,
                    closeTicks, shape >>

\* Line 192: the comparison that sets new_day.  (DayChangedOrSame: <= for <;
\* DayChangedReversed: the operands swapped; DayChangedAlways: the flag
\* never cleared.)
DayChangedOrSame(cd, now) == cd <= now
DayChangedAlways(cd, now) == TRUE
DayChangedReversed(cd, now) == cd > now
DayChanged(cd, now) == cd < now

\* Lines 192-193: new_day = current_date < today's date; sleep(60).  Reading
\* current_date before line 171 ever bound it raises UnboundLocalError.
UpdateMarker ==
    /\ pc = "update"
    /\ IF current_date = Unbound
       THEN /\ errors < MaxErrors
            /\ Raise("UnboundLocalError")
            /\ UNCHANGED << new_day, completed, sleep_secs >>
       ELSE /\ new_day' = DayChanged(current_date, today)
            /\ completed' = IF iterLog # <<>> THEN completed \cup {current_date}
                                              ELSE completed
            /\ sleep_secs' = SleepSeconds
            /\ pc' = "sleep"
            /\ UNCHANGED << exc, errors >>
    /\ UNCHANGED << environ, today, current_date, spreads, best_bet, tokenFile,
                    fetched, sends, iterLog, authLog,
                    ticksThis, ticksPrev, emptySlate,
                    closeTicks, shape >>

\* Lines 195-197: the outer handler logs and sleeps.
Handler ==
    /\ pc = "except"
    /\ sleep_secs' = SleepSeconds
    /\ pc' = "sleep"
    /\ UNCHANGED << environ, today, new_day, current_date, spreads, best_bet,
                    tokenFile, exc, errors, fetched, sends, completed, iterLog,
                    authLog, ticksThis, ticksPrev, emptySlate,
                    closeTicks, shape >>

\* sleep(60) returns; back to while True (line 167).
Wake ==
    /\ pc = "sleep"
    /\ sleep_secs' = 0
    /\ pc' = "top"
    /\ UNCHANGED << environ, today, new_day, current_date, spreads, best_bet,
                    tokenFile, exc, errors, fetched, sends, completed, iterLog,
                    authLog, ticksThis, ticksPrev, emptySlate,
                    closeTicks, shape >>

\* The wall clock passes midnight US/Eastern: datetime.now(...).date() of
\* lines 171 and 192 returns the next date from now on.
ClockTick ==
    /\ today + 1 \in Days
    /\ pc \notin {"terminated", "crashed"}
    /\ today' = today + 1
    /\ UNCHANGED << environ, pc, new_day, current_date, spreads, best_bet,
                    tokenFile, sleep_secs, exc, errors, fetched, sends,
                    completed, iterLog, authLog, ticksPrev, emptySlate, shape >>

\* A date change at any moment, any number of them per loop iteration.
Tick ==
    /\ today < MaxDay
    /\ ClockTick
    /\ UNCHANGED << ticksThis, closeTicks >>

\* The stored access token's expiry passes.
Expire ==
    /\ tokenFile \in Creds
    /\ ~tokenFile.expired
    /\ pc \notin {"terminated", "crashed"}
    /\ tokenFile' = [tokenFile EXCEPT !.expired = TRUE]
    /\ UNCHANGED << environ, pc, today, new_day, current_date, spreads, best_bet,
                    sleep_secs, exc, errors, fetched, sends, completed, iterLog,
                    authLog, ticksThis, ticksPrev, emptySlate,
                    closeTicks, shape >>

Next ==
    \/ Start
    \/ LoopTop
    \/ FetchReturns
    \/ FetchRaises
    \/ SelectBestBet
    \/ AuthReturns
    \/ AuthRaises
    \/ BuildRaises
    \/ SendOk
    \/ SendSwallowed
    \/ SendRaises
    \/ UpdateMarker
    \/ Handler
    \/ Wake
    \/ Tick
    \/ Expire

Spec == Init /\ [][Next]_vars

\* ------------------------------------------------- the selection rule alone
\* The statement of lines 179-186 on every outcome sequence up to MaxLen.
InitSelect ==
    /\ InitCommon
    /\ environ = EnvVars
    /\ tokenFile = NoFile
    /\ pc = "select"
    /\ spreads \in SeqsUpTo(Outcomes, MaxLen) \ {<<>>}

NextSelect == SelectBestBet

SpecSelect == InitSelect /\ [][NextSelect]_vars

\* ------------------------------------------- continuous, failure-free runs
\* main() always takes its next step (one thread, every call returns), no
\* step fails, and the date changes at most once per loop iteration.
InitLive ==
    /\ Init
    /\ environ = EnvVars
    /\ tokenFile # Unreadable

ProgramStep ==
    \/ Start
    \/ LoopTop
    \/ FetchReturns
    \/ SelectBestBet
    \/ AuthReturns
    \/ SendOk
    \/ UpdateMarker
    \/ Wake

\* A date change, the first since the current loop iteration began; the
\* spacing of the date changes is recorded.
TickOnce ==
    /\ today < MaxLiveDay
    /\ ~ticksThis
    /\ ClockTick
    /\ ticksThis' = TRUE
    /\ closeTicks' = (closeTicks \/ ticksThis \/ ticksPrev)

NextLive ==
    \/ ProgramStep
    \/ TickOnce
    \/ Expire

SpecLive == InitLive /\ [][NextLive]_vars /\ WF_vars(ProgramStep)

\* ------------------------------------------------------------------- claims
\* C1: for every date D, the send call is issued at most once by body
\* executions whose current_date is D, whatever the steps' outcomes are.
C1_AtMostOneSendPerDate == \A d \in Days : sends[d] <= 1

\* C2: once the body has run to completion for date D, no step taken while
\* the date is still D enters the body again: main never comes to stand at
\* the get_spreads call or anywhere else in the body, and no send is issued.
C2_NoReexecutionSameDate ==
    [][ (today \in completed) =>
           ( pc' \notin {"fetch", "select", "auth", "send"}
             /\ sends' = sends ) ]_vars

\* A loop iteration that skipped the body on a date already processed.
C2_Witness ==
    /\ pc = "update"
    /\ iterLog = <<>>
    /\ current_date = today
    /\ today \in completed
    /\ ~new_day

\* C3 as stated: with no failing step and at most one date change per loop
\* iteration, every date that begins while main() runs eventually has the
\* body executed with current_date equal to it.  (A step fails when main
\* stands at authenticate_with_google with a token file the call raises on.)
C3_EveryDateExecuted ==
    \A d \in Days \ {1} :
        (today = d) ~> (d \in fetched \/ (pc = "auth" /\ tokenFile = Unreadable))

\* C3 amended: the same, in runs where no two consecutive loop iterations
\* both see a date change (every date lasts at least two iterations).
C3_EveryDateExecutedSpaced ==
    \A d \in Days \ {1} :
        (today = d) ~> \/ d \in fetched
                       \/ closeTicks
                       \/ (pc = "auth" /\ tokenFile = Unreadable)

\* The date changed while the previous iteration ran the body for date 1,
\* and the body now runs with current_date = 2.
C3_Witness ==
    /\ pc = "fetch"
    /\ current_date = 2
    /\ 1 \in completed
    /\ ticksPrev
    /\ fetched = {1}
    /\ ~closeTicks

\* C4: every exception raised in a loop iteration reaches the outer handler,
\* which sleeps 60 seconds, after which the next iteration starts; the
\* process never ends because of such an exception.
C4_ExceptionsCaught ==
    [][ (errors' > errors => pc' = "except")
        /\ ((pc = "except" /\ pc' # pc) => (pc' = "sleep" /\ sleep_secs' = 60))
        /\ ((pc = "sleep" /\ pc' # pc) => pc' = "top")
        /\ (pc' # "crashed") ]_vars

\* A new iteration is about to start after an exception was handled.
C4_Witness ==
    /\ pc = "top"
    /\ exc # "none"
    /\ errors > 0

\* C5: when the send call fails, send_email swallows the failure (nothing
\* reaches main's handler, main goes on to line 192), and no send is
\* attempted again for a date a send was already issued for.
C5_SendFailureSwallowed ==
    /\ (iterLog # <<>> /\ iterLog[Len(iterLog)] = "send_failed")
          => (exc = "none" /\ pc \in {"update", "sleep", "top"})
    /\ pc = "send" => sends[current_date] = 0

\* C6: the selected best bet is a row of the sequence and its price is less
\* than or equal to the price of every row; a sequence whose rows all carry
\* a price always yields a selection.
C6_MinimumPrice ==
    pc # "select" =>
        /\ (\A i \in 1..Len(spreads) : HasPrice(spreads[i])) /\ spreads # <<>>
              => best_bet # None
        /\ best_bet # None =>
              /\ best_bet.label + 1 \in 1..Len(spreads)
              /\ HasPrice(spreads[best_bet.label + 1])
              /\ spreads[best_bet.label + 1].price = best_bet.price
              /\ spreads[best_bet.label + 1].name = best_bet.name
              /\ \A i \in 1..Len(spreads) :
                    HasPrice(spreads[i]) => best_bet.price <= spreads[i].price

\* A -150, B +130, C -200: C at -200 is selected.
C6_Witness ==
    /\ pc = "auth"
    /\ spreads = << [name |-> "A", price |-> -150],
                    [name |-> "B", price |-> 130],
                    [name |-> "C", price |-> -200] >>
    /\ best_bet = [label |-> 2, name |-> "C", price |-> -200]

\* C7: among the rows that share the minimum price, the first one in the
\* sequence is the one selected.
C7_FirstOfTies ==
    (pc # "select" /\ best_bet # None) =>
        \A i \in 1..Len(spreads) :
            (HasPrice(spreads[i]) /\ spreads[i].price = best_bet.price)
                => best_bet.label + 1 <= i

\* B and C tie at -200 behind A: B, the first of the two, is selected.
C7_Witness ==
    /\ pc = "auth"
    /\ spreads = << [name |-> "A", price |-> 130],
                    [name |-> "B", price |-> -200],
                    [name |-> "C", price |-> -200] >>
    /\ best_bet = [label |-> 1, name |-> "B", price |-> -200]

\* C8: when the response holds no outcome, the iteration makes no
\* authenticate_with_google call and no send, raises nothing, and goes on
\* through line 192.
C8_EmptyNoNotification ==
    emptySlate =>
        /\ exc = "none"
        /\ ~authLog.called
        /\ \A i \in 1..Len(iterLog) : iterLog[i] \in {"fetch_empty"}
        /\ iterLog # <<>> => spreads = <<>>
        /\ pc \in {"update", "sleep", "top"}

\* An iteration that fetched an empty slate has reached its sleep.
C8_Witness ==
    /\ emptySlate
    /\ pc = "sleep"
    /\ iterLog = <<"fetch_empty">>

\* C9: a stored credential that is valid is returned as it is: no refresh,
\* no interactive flow, no write of the token file.
C9_ValidReused ==
    (authLog.called /\ authLog.before \in Creds /\ ~authLog.before.expired) =>
        /\ authLog.result.raised = "none"
        /\ authLog.result.creds = authLog.before
        /\ authLog.result.refresh = 0
        /\ authLog.result.flow = 0
        /\ authLog.result.writes = 0
        /\ authLog.result.file = authLog.before

\* authenticate_with_google returned with a valid stored credential.
C9_Witness ==
    /\ pc = "send"
    /\ authLog.called
    /\ authLog.before \in Creds
    /\ ~authLog.before.expired

\* C10: a stored credential that is expired and carries a refresh token is
\* refreshed with exactly one refresh call and never by the interactive
\* flow; when the refresh returns, the refreshed (valid) credential is
\* written to the token file and returned.
C10_ExpiredRefreshed ==
    (authLog.called /\ authLog.before \in Creds
       /\ authLog.before.expired /\ authLog.before.refresh_token) =>
        /\ authLog.result.refresh = 1
        /\ authLog.result.flow = 0
        /\ authLog.result.raised = "none" =>
              /\ authLog.result.writes = 1
              /\ authLog.result.creds \in Creds
              /\ Valid(authLog.result.creds)
              /\ authLog.result.file = authLog.result.creds

\* authenticate_with_google returned after refreshing an expired credential.
C10_Witness ==
    /\ pc = "send"
    /\ authLog.called
    /\ authLog.before \in Creds
    /\ authLog.before.expired
    /\ authLog.before.refresh_token
    /\ authLog.result.refresh = 1
    /\ tokenFile = Refreshed

\* C11: with no token file, or with a stored credential that is expired and
\* carries no refresh token, authenticate_with_google runs the interactive
\* flow once and never calls refresh; when the flow returns, the credential
\* it obtained is written to the token file and returned.
C11_InteractiveFlow ==
    ( /\ authLog.called
      /\ \/ authLog.before = NoFile
         \/ /\ authLog.before \in Creds
            /\ authLog.before.expired
            /\ ~authLog.before.refresh_token ) =>
        /\ authLog.result.flow = 1
        /\ authLog.result.refresh = 0
        /\ authLog.result.raised = "none" =>
              /\ authLog.result.writes = 1
              /\ authLog.result.creds \in Creds
              /\ Valid(authLog.result.creds)
              /\ authLog.result.file = ToJson(authLog.result.creds)

\* authenticate_with_google returned after the interactive flow replaced an
\* expired credential that had no refresh token.
C11_Witness ==
    /\ pc = "send"
    /\ authLog.called
    /\ authLog.before \in Creds
    /\ authLog.before.expired
    /\ ~authLog.before.refresh_token
    /\ authLog.result.flow = 1
    /\ tokenFile = authLog.result.creds
    /\ tokenFile \in Creds

\* C12: with a token file that cannot be parsed into a credential,
\* authenticate_with_google runs the interactive flow and, when the flow
\* returns, writes the fresh credential and returns it valid; the unreadable
\* file itself makes the call raise nothing.
C12_UnreadableFallsBack ==
    (authLog.called /\ authLog.before = Unreadable) =>
        /\ authLog.result.flow = 1
        /\ authLog.result.raised # "ValueError"
        /\ authLog.result.raised = "none" =>
              /\ authLog.result.writes = 1
              /\ authLog.result.creds \in Creds
              /\ Valid(authLog.result.creds)
              /\ authLog.result.file = authLog.result.creds

\* C13: when the refresh of an expired credential fails, the same
\* authenticate_with_google call goes on to the interactive flow; the
\* refresh failure does not end the call.
C13_RefreshFailureFallsBack ==
    ( /\ authLog.called
      /\ authLog.result.refresh = 1
      /\ authLog.result.creds # Refreshed ) =>
        /\ authLog.result.flow = 1
        /\ authLog.result.raised # "RefreshError"

\* C14: when one of SENDER_EMAIL, RECIPIENT_EMAIL, ODDS_API_KEY is not set,
\* main() ends with KeyError before the loop is entered: it never reads the
\* date, fetches, authenticates or sends, and it never goes on with a value
\* of its own in place of the missing one.
C14_MissingEnvFatal ==
    ~(EnvVars \subseteq environ) =>
        /\ pc \in {"start", "terminated"}
        /\ pc = "terminated" => exc = "KeyError"
        /\ current_date = Unbound
        /\ fetched = {}
        /\ \A d \in Days : sends[d] = 0
        /\ ~authLog.called
        /\ iterLog = <<>>
        /\ sleep_secs = 0

\* main() has ended on the missing RECIPIENT_EMAIL.
C14_Witness ==
    /\ pc = "terminated"
    /\ environ = {"SENDER_EMAIL", "ODDS_API_KEY"}
    /\ exc = "KeyError"

\* C15: with the configuration present, main() enters the loop with new_day
\* true, and the first loop iteration reads the date and goes to the
\* get_spreads call; until then no sleep was started and nothing was raised.
C15_FirstIterationRunsBody ==
    /\ [](current_date = Unbound =>
             /\ pc \in {"start", "top", "terminated"}
             /\ sleep_secs = 0
             /\ errors = 0)
    /\ [][ /\ (pc = "start" /\ pc' = "top") => new_day'
           /\ (pc = "top" /\ current_date = Unbound /\ pc' # pc) =>
                 (pc' = "fetch" /\ current_date' = today) ]_vars

\* The first iteration stands at the get_spreads call, a token file of an
\* earlier run on disk.
C15_Witness ==
    /\ pc = "fetch"
    /\ fetched = {}
    /\ errors = 0
    /\ current_date = today
    /\ tokenFile \in Creds

\* C16: after get_spreads raised, the iteration does nothing more than reach
\* the handler and its 60-second sleep: no second fetch, no authentication,
\* no send; new_day is still true, and the next iteration goes to the
\* get_spreads call again, whatever the date is.
C16_FetchFailureRetried ==
    [][ /\ (iterLog' # <<>> /\ iterLog'[1] = "fetch_raise") =>
              /\ iterLog' = <<"fetch_raise">>
              /\ sends' = sends
              /\ ~authLog'.called
              /\ new_day'
              /\ pc' \in {"except", "sleep", "top"}
              /\ pc' = "sleep" => sleep_secs' = 60
        /\ (iterLog = <<"fetch_raise">> /\ pc = "top" /\ pc' # pc) =>
              (pc' = "fetch" /\ current_date' = today) ]_vars

\* The sleep after a malformed-JSON response is over, the date unchanged:
\* the next iteration is about to begin with new_day true.
C16_Witness ==
    /\ pc = "top"
    /\ iterLog = <<"fetch_raise">>
    /\ exc = "JSONDecodeError"
    /\ new_day
    /\ today = current_date

\* C17: main stands at the authenticate_with_google call only after this
\* iteration's get_spreads returned rows and a best bet was selected from
\* them, and at the send call only after authenticate_with_google returned
\* as well; the iteration's events come in that order.
C17_SendPrecededInOrder ==
    /\ pc = "auth" =>
          /\ iterLog = <<"fetch_ok", "select_ok">>
          /\ spreads # <<>>
          /\ best_bet # None
    /\ authLog.called =>
          /\ Len(iterLog) >= 3
          /\ SubSeq(iterLog, 1, 2) = <<"fetch_ok", "select_ok">>
          /\ iterLog[3] \in {"auth_ok", "auth_raise"}
          /\ best_bet = BestBet(spreads)
    /\ pc = "send" =>
          /\ iterLog = <<"fetch_ok", "select_ok", "auth_ok">>
          /\ authLog.result.raised = "none"
    /\ \A i \in 1..Len(iterLog) :
          iterLog[i] \in {"send_ok", "send_failed"} =>
             /\ i = 4
             /\ SubSeq(iterLog, 1, 3) = <<"fetch_ok", "select_ok", "auth_ok">>

\* An iteration that fetched, selected, authenticated and sent.
C17_Witness ==
    /\ pc = "update"
    /\ iterLog = <<"fetch_ok", "select_ok", "auth_ok", "send_ok">>
    /\ authLog.called

\* C18: a response with a game that has no bookmakers (or no markets under
\* its first bookmaker) makes get_spreads raise IndexError: nothing of the
\* response reaches main (spreads and best_bet stay what they were), the
\* iteration selects, authenticates and sends nothing, new_day stays true,
\* and the next iteration goes to the get_spreads call again, each time the
\* response has that shape.
C18_MalformedGameFailsAll ==
    [][ /\ shape'.malformed =>
              /\ exc' = "IndexError"
              /\ iterLog' = <<"fetch_raise">>
              /\ spreads' = spreads
              /\ best_bet' = best_bet
              /\ sends' = sends
              /\ ~authLog'.called
              /\ new_day'
              /\ pc' \in {"except", "sleep", "top"}
        /\ (shape.malformed /\ pc = "top" /\ pc' # pc) => pc' = "fetch" ]_vars

\* On date 1 two responses in a row had a game without bookmakers next to a
\* game with outcomes: the fetch was repeated in the second iteration and
\* failed again; its sleep is over and the next iteration is about to begin.
C18_Witness ==
    /\ pc = "top"
    /\ shape.malformed
    /\ shape.others
    /\ shape.run = 2
    /\ iterLog = <<"fetch_raise">>
    /\ new_day
    /\ fetched = {1}
    /\ today = 1

\* C19: line 192 never reads an unbound current_date; while new_day is
\* false, current_date is the latest date get_spreads was called with; and
\* line 192 sets new_day only when the date is strictly later than
\* current_date.
C19_MarkerReadsAssignedDate ==
    /\ [](pc = "update" => current_date \in Days)
    /\ [](~new_day =>
             /\ current_date \in fetched
             /\ \A d \in fetched : d <= current_date)
    /\ [][ (pc = "update" /\ pc' # pc) =>
              /\ pc' = "sleep"
              /\ new_day' => current_date < today ]_vars

\* The body ran for dates 1 and 2 and the flag is cleared on date 2.
C19_Witness ==
    /\ pc = "sleep"
    /\ ~new_day
    /\ current_date = 2
    /\ today = 2
    /\ fetched = {1, 2}

====
